---- MODULE Spec2Model ----
(***************************************************************************)
(* Model of inventory_system.py: the process-wide stock_data dictionary,   *)
(* its mutation, query and reporting functions, and load/save against a    *)
(* JSON file.                                                              *)
(*                                                                         *)
(* Python objects are records [t, v, s]: t is the run-time type, v the     *)
(* numeric payload, s the characters of a str (a sequence, so that strip() *)
(* is computed).  A float is modelled at integral values, plus NaN.        *)
(* A dict is a sequence of [k, v] entries with distinct keys, in insertion *)
(* order, as CPython keeps it.  The file holds text: one path, whose       *)
(* content is kept as JSON syntax, and open/read/write faults are inputs   *)
(* of load_data and save_data.                                             *)
(***************************************************************************)
EXTENDS Integers, Sequences, FiniteSets, TLC

VARIABLES stock_data, file, last

vars == <<stock_data, file, last>>

\* ---------------------------------------------------------------- bounds
\* Largest quantity a caller or a file hands over, and the largest total an
\* add_item may reach (a call that would pass it is not made).
MaxQty == 2

\* ------------------------------------------------------- Python objects
PyInt(n) == [t |-> "int", v |-> n, s |-> <<>>]
PyBool(b) == [t |-> "bool", v |-> IF b THEN 1 ELSE 0, s |-> <<>>]
PyFloat(n) == [t |-> "float", v |-> n, s |-> <<>>]
NaN == [t |-> "nan", v |-> 0, s |-> <<>>]
PyStr(cs) == [t |-> "str", v |-> 0, s |-> cs]
PyNone == [t |-> "NoneType", v |-> 0, s |-> <<>>]

\* isinstance(x, str)
IsStr(x) == x.t = "str"

\* isinstance(x, (int, float)): bool is a subclass of int, NaN is a float
IsNumber(x) == x.t \in {"int", "bool", "float", "nan"}

\* str.strip(): drop leading and trailing whitespace
RECURSIVE LStrip(_)
LStrip(cs) == IF cs # <<>> /\ Head(cs) = " " THEN LStrip(Tail(cs)) ELSE cs

RECURSIVE RStrip(_)
RStrip(cs) ==
    IF cs # <<>> /\ cs[Len(cs)] = " " THEN RStrip(SubSeq(cs, 1, Len(cs) - 1)) ELSE cs

strip(cs) == RStrip(LStrip(cs))

\* not item or item.strip() == ""
IsBlank(x) == x.s = <<>> \/ strip(x.s) = <<>>

\* x < y, x <= y on numbers: every comparison with NaN is False
Lt(x, y) == x.t # "nan" /\ y.t # "nan" /\ x.v < y.v
Le(x, y) == x.t # "nan" /\ y.t # "nan" /\ x.v <= y.v

\* x + y, x - y on numbers: NaN is absorbing, a float operand makes a float,
\* int and bool operands make an int
Arith(x, y, r) ==
    IF x.t = "nan" \/ y.t = "nan" THEN NaN
    ELSE IF x.t = "float" \/ y.t = "float" THEN PyFloat(r)
    ELSE PyInt(r)

Plus(x, y) == Arith(x, y, x.v + y.v)
Minus(x, y) == Arith(x, y, x.v - y.v)

\* ---------------------------------------------------------------- dicts
DictKeys(d) == {d[i].k : i \in 1..Len(d)}

\* key in d
HasKey(d, k) == k \in DictKeys(d)

IndexOf(d, k) == CHOOSE i \in 1..Len(d) : d[i].k = k

\* d.get(k, default)
DictGet(d, k, default) == IF HasKey(d, k) THEN d[IndexOf(d, k)].v ELSE default

\* d[k] = v: an existing key keeps its place, a new key goes last
DictSet(d, k, v) ==
    IF HasKey(d, k)
    THEN [d EXCEPT ![IndexOf(d, k)] = [k |-> k, v |-> v]]
    ELSE Append(d, [k |-> k, v |-> v])

\* del d[k]
DictDel(d, k) ==
    LET i == IndexOf(d, k)
    IN SubSeq(d, 1, i - 1) \o SubSeq(d, i + 1, Len(d))

\* ------------------------------------------------------ the operations
\* The record of the last call: its name, the value it
\* returned (the list check_low_items returns in `lines`), the message it
\* printed (the report of print_data in `lines`), the caller's log list as the
\* call found it and as it left it, and what the file system answered.
NoCall ==
    [op |-> "none", ret |-> PyNone, out |-> "", lines |-> <<>>,
     logs_in |-> <<>>, logs |-> <<>>, fault |-> "ok"]

Call(op, ret, out) ==
    [op |-> op, ret |-> ret, out |-> out, lines |-> <<>>,
     logs_in |-> <<>>, logs |-> <<>>, fault |-> "ok"]

\* The validation chain of add_item: the message of the first check that
\* fails, "" when all pass.
AddError(item, qty) ==
    IF ~IsStr(item) THEN "Error: Item name must be a string"
    ELSE IF ~IsNumber(qty) THEN "Error: Quantity must be a number"
    ELSE IF IsBlank(item) THEN "Error: Item name cannot be empty"
    ELSE IF Lt(qty, PyInt(0)) THEN "Error: Cannot add negative quantity"
    ELSE ""

\* The logs argument left out (logs=None): the caller has no list.
NoList == <<<<PyNone, PyNone>>>>

\* add_item as it would be with the log entry appended before validation.
add_item_LogFirst(item, qty, logs) ==
    LET error_msg == AddError(item, qty)
        success == error_msg = ""
        total == Plus(DictGet(stock_data, item, PyInt(0)), qty)
    IN /\ success => total.v <= MaxQty
       /\ stock_data' = IF success THEN DictSet(stock_data, item, total) ELSE stock_data
       /\ last' = [Call("add_item", PyBool(success), error_msg)
                     EXCEPT !.logs_in = logs,
                            !.logs = IF logs # NoList
                                     THEN Append(logs, <<qty, item>>)
                                     ELSE logs]
       /\ UNCHANGED file

\* add_item as it would be with the quantity assigned, not added.
add_item_Overwrite(item, qty, logs) ==
    LET error_msg == AddError(item, qty)
        success == error_msg = ""
    IN /\ success => qty.v <= MaxQty
       /\ stock_data' = IF success THEN DictSet(stock_data, item, qty) ELSE stock_data
       /\ last' = [Call("add_item", PyBool(success), error_msg)
                     EXCEPT !.logs_in = logs,
                            !.logs = IF success /\ logs # NoList
                                     THEN Append(logs, <<qty, item>>)
                                     ELSE logs]
       /\ UNCHANGED file

\* add_item(item, qty, logs).  With logs=None the entry goes to a fresh list
\* the caller never sees.
add_item(item, qty, logs) ==
    LET error_msg == AddError(item, qty)
        success == error_msg = ""
        total == Plus(DictGet(stock_data, item, PyInt(0)), qty)
    IN /\ success => total.v <= MaxQty
       /\ stock_data' = IF success THEN DictSet(stock_data, item, total) ELSE stock_data
       /\ last' = [Call("add_item", PyBool(success), error_msg)
                     EXCEPT !.logs_in = logs,
                            !.logs = IF success /\ logs # NoList
                                     THEN Append(logs, <<qty, item>>)
                                     ELSE logs]
       /\ UNCHANGED file

\* The validation chain of remove_item.
RemoveError(item, qty) ==
    IF ~IsStr(item) THEN "Error: Item name must be a string"
    ELSE IF ~IsNumber(qty) THEN "Error: Quantity must be a number"
    ELSE IF IsBlank(item) THEN "Error: Item name cannot be empty"
    ELSE IF Le(qty, PyInt(0)) THEN "Error: Quantity to remove must be positive"
    ELSE IF ~HasKey(stock_data, item) THEN "Error: Item not found in inventory"
    ELSE IF Lt(DictGet(stock_data, item, PyNone), qty) THEN "Error: Cannot remove, not enough available"
    ELSE ""

\* remove_item(item, qty)
remove_item(item, qty) ==
    LET error_msg == RemoveError(item, qty)
        success == error_msg = ""
        rest == Minus(DictGet(stock_data, item, PyNone), qty)
    IN /\ stock_data' =
              IF ~success THEN stock_data
              ELSE IF Le(rest, PyInt(0)) THEN DictDel(stock_data, item)
              ELSE DictSet(stock_data, item, rest)
       /\ last' = Call("remove_item", PyBool(success), error_msg)
       /\ UNCHANGED file

\* get_qty as it would be with setdefault in place of get: a name asked for
\* is entered with quantity 0.
get_qty_SetDefault(item) ==
    LET error_msg ==
            IF ~IsStr(item) THEN "Error: Item name must be a string"
            ELSE IF IsBlank(item) THEN "Error: Item name cannot be empty"
            ELSE ""
        result == IF error_msg = "" THEN DictGet(stock_data, item, PyInt(0)) ELSE PyInt(0)
    IN /\ last' = Call("get_qty", result, error_msg)
       /\ stock_data' = IF error_msg = "" /\ ~HasKey(stock_data, item)
                        THEN DictSet(stock_data, item, PyInt(0))
                        ELSE stock_data
       /\ UNCHANGED file

\* get_qty(item)
get_qty(item) ==
    LET error_msg ==
            IF ~IsStr(item) THEN "Error: Item name must be a string"
            ELSE IF IsBlank(item) THEN "Error: Item name cannot be empty"
            ELSE ""
        result == IF error_msg = "" THEN DictGet(stock_data, item, PyInt(0)) ELSE PyInt(0)
    IN /\ last' = Call("get_qty", result, error_msg)
       /\ UNCHANGED <<stock_data, file>>

\* The loop of check_low_items as it would be with <= in place of <.
RECURSIVE LowLoopLe(_, _)
LowLoopLe(d, threshold) ==
    IF d = <<>> THEN <<>>
    ELSE (IF Le(Head(d).v, threshold) THEN <<Head(d).k>> ELSE <<>>)
         \o LowLoopLe(Tail(d), threshold)

\* The for loop of check_low_items: the keys in iteration order whose
\* quantity is below the threshold.
RECURSIVE LowLoop(_, _)
LowLoop(d, threshold) ==
    IF d = <<>> THEN <<>>
    ELSE (IF Lt(Head(d).v, threshold) THEN <<Head(d).k>> ELSE <<>>)
         \o LowLoop(Tail(d), threshold)

\* check_low_items(threshold)
check_low_items(threshold) ==
    LET error_msg ==
            IF ~IsNumber(threshold) THEN "Error: Threshold must be a number"
            ELSE IF Lt(threshold, PyInt(0)) THEN "Error: Threshold must be non-negative"
            ELSE ""
        result == IF error_msg = "" THEN LowLoop(stock_data, threshold) ELSE <<>>
    IN /\ last' = [Call("check_low_items", PyNone, error_msg)
                     EXCEPT !.lines = result]
       /\ UNCHANGED <<stock_data, file>>

\* print_data(): the header, then one line per entry in iteration order
print_data ==
    /\ last' = [Call("print_data", PyNone, "Items Report")
                  EXCEPT !.lines = [i \in 1..Len(stock_data) |->
                                       <<stock_data[i].k, "->", stock_data[i].v>>]]
    /\ UNCHANGED <<stock_data, file>>

\* ----------------------------------------------------------------- JSON
\* The text of the file is kept as its JSON syntax: st is "missing" (no
\* file), "malformed" (not JSON), "array" (JSON whose root is no object) or
\* "object", and then pairs are the members as written, [k, j, n]: the key's
\* characters, the kind of value token and the number it denotes.
Missing == [st |-> "missing", pairs |-> <<>>]
Malformed == [st |-> "malformed", pairs |-> <<>>]
ArrayRoot == [st |-> "array", pairs |-> <<>>]
Object(pairs) == [st |-> "object", pairs |-> pairs]
Member(k, j, n) == [k |-> k, j |-> j, n |-> n]

\* json.dumps of one quantity as an encoder of strict JSON has it: NaN, which
\* JSON cannot write, becomes null.
DumpValueStrict(x) ==
    IF x.t = "int" THEN [j |-> "int", n |-> x.v]
    ELSE IF x.t = "float" THEN [j |-> "real", n |-> x.v]
    ELSE IF x.t = "bool" THEN [j |-> IF x.v = 1 THEN "true" ELSE "false", n |-> 0]
    ELSE IF x.t = "str" THEN [j |-> "string", n |-> 0]
    ELSE [j |-> "null", n |-> 0]

\* json.dumps of one quantity: an int as an integer literal, a float as a
\* literal with a fraction, a bool as true/false, NaN as the bare word NaN
DumpValue(x) ==
    IF x.t = "int" THEN [j |-> "int", n |-> x.v]
    ELSE IF x.t = "float" THEN [j |-> "real", n |-> x.v]
    ELSE IF x.t = "bool" THEN [j |-> IF x.v = 1 THEN "true" ELSE "false", n |-> 0]
    ELSE IF x.t = "nan" THEN [j |-> "NaN", n |-> 0]
    ELSE IF x.t = "str" THEN [j |-> "string", n |-> 0]
    ELSE [j |-> "null", n |-> 0]

\* json.dumps(stock_data, indent=2): the entries in iteration order
dumps(d) ==
    Object([i \in 1..Len(d) |->
               LET tok == DumpValue(d[i].v) IN Member(d[i].k.s, tok.j, tok.n)])

\* json.loads of one value token
LoadValue(m) ==
    IF m.j = "int" THEN PyInt(m.n)
    ELSE IF m.j = "real" THEN PyFloat(m.n)
    ELSE IF m.j = "true" THEN PyBool(TRUE)
    ELSE IF m.j = "false" THEN PyBool(FALSE)
    ELSE IF m.j = "NaN" THEN NaN
    ELSE IF m.j = "string" THEN PyStr(<<>>)
    ELSE PyNone

\* json.loads of an object: the members are stored one by one, so a repeated
\* key keeps its first place and its last value
RECURSIVE LoadPairs(_, _)
LoadPairs(pairs, d) ==
    IF pairs = <<>> THEN d
    ELSE LoadPairs(Tail(pairs), DictSet(d, PyStr(Head(pairs).k), LoadValue(Head(pairs))))

loads(text) == LoadPairs(text.pairs, <<>>)

\* _validate_load_data_inputs(file): the message, "" when the path is valid
ValidateLoadDataInputs(path) ==
    IF ~IsStr(path) THEN "Error: File path must be a string"
    ELSE IF IsBlank(path) THEN "Error: File path cannot be empty"
    ELSE ""

\* The loop of _validate_json_data as it would be without the test value < 0.
RECURSIVE ValidateItemsUnsigned(_)
ValidateItemsUnsigned(d) ==
    IF d = <<>> THEN ""
    ELSE IF ~IsStr(Head(d).k) THEN "Error: Invalid item name - must be string"
    ELSE IF ~IsNumber(Head(d).v)
         THEN "Error: Invalid quantity - must be non-negative number"
    ELSE ValidateItemsUnsigned(Tail(d))

\* The loop of _validate_json_data over data.items()
RECURSIVE ValidateItems(_)
ValidateItems(d) ==
    IF d = <<>> THEN ""
    ELSE IF ~IsStr(Head(d).k) THEN "Error: Invalid item name - must be string"
    ELSE IF ~IsNumber(Head(d).v) \/ Lt(Head(d).v, PyInt(0))
         THEN "Error: Invalid quantity - must be non-negative number"
    ELSE ValidateItems(Tail(d))

\* _validate_json_data(data), on the text the data is parsed from
ValidateJsonData(text) ==
    IF text.st # "object" THEN "Error: Invalid data format in file - expected dictionary"
    ELSE ValidateItems(loads(text))

\* load_data as it would be with the parsed entries merged into the Ledger
\* (stock_data.update(data)) in place of the assignment.
load_data_Merge(path, fault) ==
    LET error_msg ==
            IF ValidateLoadDataInputs(path) # "" THEN ValidateLoadDataInputs(path)
            ELSE IF fault = "PermissionError" THEN "Error: Permission denied accessing file"
            ELSE IF fault = "OSError" THEN "Error loading data"
            ELSE IF file.st = "missing" THEN "Error: File not found"
            ELSE IF file.st = "malformed" THEN "Error: Invalid JSON in file"
            ELSE ValidateJsonData(file)
        success == error_msg = ""
    IN /\ stock_data' = IF success THEN LoadPairs(file.pairs, stock_data) ELSE stock_data
       /\ last' = [Call("load_data", PyBool(success), error_msg)
                     EXCEPT !.fault = fault]
       /\ UNCHANGED file

\* load_data(file).  fault is what open() and read() meet: "ok",
\* "PermissionError" or "OSError".
load_data(path, fault) ==
    LET error_msg ==
            IF ValidateLoadDataInputs(path) # "" THEN ValidateLoadDataInputs(path)
            ELSE IF fault = "PermissionError" THEN "Error: Permission denied accessing file"
            ELSE IF fault = "OSError" THEN "Error loading data"
            ELSE IF file.st = "missing" THEN "Error: File not found"
            ELSE IF file.st = "malformed" THEN "Error: Invalid JSON in file"
            ELSE ValidateJsonData(file)
        success == error_msg = ""
    IN /\ stock_data' = IF success THEN loads(file) ELSE stock_data
       /\ last' = [Call("load_data", PyBool(success), error_msg)
                     EXCEPT !.fault = fault]
       /\ UNCHANGED file

\* save_data(file).  fault is what open() and write() meet: "ok",
\* "PermissionError", "OSError" (open fails) or "OSError in write" (the file
\* is already truncated when the write fails).
save_data(path, fault) ==
    LET invalid ==
            IF ~IsStr(path) THEN "Error: File path must be a string"
            ELSE IF IsBlank(path) THEN "Error: File path cannot be empty"
            ELSE ""
        error_msg ==
            IF invalid # "" THEN invalid
            ELSE IF fault = "PermissionError" THEN "Error: Permission denied writing to file"
            ELSE IF fault \in {"OSError", "OSError in write"} THEN "Error saving data"
            ELSE ""
        success == error_msg = ""
    IN /\ file' = IF success THEN dumps(stock_data)
                  ELSE IF invalid = "" /\ fault = "OSError in write" THEN Malformed
                  ELSE file
       /\ last' = [Call("save_data", PyBool(success), error_msg)
                     EXCEPT !.fault = fault]
       /\ UNCHANGED stock_data

\* Another program writes or deletes the file between two calls.
external_write(text) ==
    /\ file' = text
    /\ last' = Call("external_write", PyNone, "")
    /\ UNCHANGED stock_data

\* ------------------------------------------------------------ arguments
apple == PyStr(<<"a">>)
padded == PyStr(<<" ", "a">>)
blank == PyStr(<<" ">>)
empty == PyStr(<<>>)
DefaultFile == PyStr(<<"inventory.json">>)

\* Names a caller passes: a valid name, an all-whitespace one, the empty one
\* and a value that is no str.  The name " a" enters only through a file.
Items == {apple, blank, empty, PyInt(1)}

Numbers == {PyInt(n) : n \in -1..MaxQty} \cup {PyBool(TRUE), NaN}

ten == PyStr(<<"t", "e", "n">>)

Qtys == Numbers \cup {ten}

\* The (item, qty) pairs of the calls: the valid name with every quantity, and
\* every name with a number and with a value that is none.
ItemQtys == {a \in Items \X Qtys : a[1] = apple \/ a[2] \in {PyInt(1), ten}}

Paths == {DefaultFile, blank, empty, PyInt(1)}

OldEntry == <<PyInt(1), apple>>

\* The lists a caller passes as logs: none, or one that holds an entry.
LogLists == {NoList, <<OldEntry>>}

LoadFaults == {"ok", "PermissionError", "OSError"}

SaveFaults == LoadFaults \cup {"OSError in write"}

\* The (path, fault) pairs of the calls: a path that fails validation never
\* reaches the file system.
PathFaults(faults) == {a \in Paths \X faults : a[1] = DefaultFile \/ a[2] = "ok"}

ExternalFiles ==
    { Missing, Malformed, ArrayRoot,
      Object(<<>>),
      Object(<<Member(<<"a">>, "int", 1), Member(<<" ", "a">>, "int", MaxQty)>>),
      Object(<<Member(<<"a">>, "int", -1), Member(<<"a">>, "int", MaxQty)>>),
      Object(<<Member(<<"a">>, "int", 1), Member(<<" ", "a">>, "int", -1)>>),
      Object(<<Member(<<"a">>, "string", 0)>>),
      Object(<<Member(<<"a">>, "null", 0)>>),
      Object(<<Member(<<"a">>, "true", 0)>>),
      Object(<<Member(<<"a">>, "NaN", 0)>>),
      Object(<<Member(<<"a">>, "real", 1)>>),
      Object(<<Member(<<>>, "int", 1)>>),
      Object(<<Member(<<" ">>, "int", 0)>>) }

\* -------------------------------------------------------- specification
Init ==
    /\ stock_data = <<>>
    /\ file = Missing
    /\ last = NoCall

Next ==
    \/ \E a \in ItemQtys, logs \in LogLists : add_item(a[1], a[2], logs)
    \/ \E a \in ItemQtys : remove_item(a[1], a[2])
    \/ \E item \in Items : get_qty(item)
    \/ \E threshold \in Qtys : check_low_items(threshold)
    \/ print_data
    \/ \E a \in PathFaults(LoadFaults) : load_data(a[1], a[2])
    \/ \E a \in PathFaults(SaveFaults) : save_data(a[1], a[2])
    \/ \E text \in ExternalFiles : external_write(text)

Spec == Init /\ [][Next]_vars

\* ------------------------------------------------- reading the Ledger
\* The quantity stored under key k (k is a key of d).
Stored(d, k) == (CHOOSE e \in {d[i] : i \in 1..Len(d)} : e.k = k).v

\* The Ledger as a mapping, its iteration order forgotten.
AsMap(d) == [k \in DictKeys(d) |-> Stored(d, k)]

\* Python's x > 0, x >= y and x == y on numbers.
Positive(x) == IsNumber(x) /\ x.t # "nan" /\ x.v > 0
AtLeast(x, y) == IsNumber(x) /\ IsNumber(y) /\ x.t # "nan" /\ y.t # "nan" /\ x.v >= y.v
NumEq(x, y) == x.t # "nan" /\ y.t # "nan" /\ x.v = y.v

\* Every key but k keeps its entry.
OthersKept(k) ==
    /\ DictKeys(stock_data') \ {k} = DictKeys(stock_data) \ {k}
    /\ \A o \in DictKeys(stock_data) \ {k} : Stored(stock_data', o) = Stored(stock_data, o)

\* --------------------------------------------------------------- claims

\* C1: after every call, every key of the Ledger has a quantity strictly
\* greater than 0.
C1_EveryQuantityPositive ==
    \A k \in DictKeys(stock_data) : Positive(Stored(stock_data, k))

\* C2: in every state between calls, no key of the Ledger holds a negative
\* or a non-numeric quantity (numeric as the code's own check has it: an int
\* or a float, which in Python takes in bool and NaN).
C2_NoNegativeOrNonNumeric ==
    \A k \in DictKeys(stock_data) :
        /\ Stored(stock_data, k).t \in {"int", "bool", "float", "nan"}
        /\ ~(Stored(stock_data, k).v < 0)

\* C2's case: a load turned a file down for a negative or non-numeric value
\* while the Ledger held entries.
C2_Witness ==
    /\ last.op = "load_data"
    /\ last.out = "Error: Invalid quantity - must be non-negative number"
    /\ stock_data # <<>>

\* C3: remove returns success exactly when item is a key and
\* Ledger[item] >= qty > 0; after a success the quantity is old - qty when
\* that is > 0 and the key is gone when it is <= 0; other keys keep theirs.
C3_RemoveContract ==
    [][last'.op = "remove_item" =>
          \A a \in ItemQtys :
              remove_item(a[1], a[2]) =>
                  LET item == a[1]
                      qty == a[2]
                      ok == /\ HasKey(stock_data, item)
                            /\ AtLeast(Stored(stock_data, item), qty)
                            /\ Positive(qty)
                      rest == Minus(Stored(stock_data, item), qty)
                  IN /\ (last'.ret = PyBool(TRUE)) <=> ok
                     /\ last'.ret = PyBool(TRUE) =>
                           /\ Positive(rest) =>
                                 /\ HasKey(stock_data', item)
                                 /\ Stored(stock_data', item) = rest
                           /\ Le(rest, PyInt(0)) => ~HasKey(stock_data', item)
                           /\ Positive(rest) \/ Le(rest, PyInt(0))
                           /\ OthersKept(item)]_vars

\* C4: an add or a remove whose arguments fail a validation check returns
\* failure (no call that returns anything else has such arguments), and a
\* call that returns failure leaves the Ledger and the caller's log exactly
\* as they were.
C4_FailureHasNoEffect ==
    [][/\ (last'.op = "add_item" /\ last'.ret # PyBool(FALSE)) =>
             \A a \in ItemQtys, logs \in LogLists :
                 LET item == a[1]
                     qty == a[2]
                     rejected == \/ item.t # "str"
                                 \/ qty.t \notin {"int", "bool", "float", "nan"}
                                 \/ strip(item.s) = <<>>
                                 \/ Lt(qty, PyInt(0))
                 IN rejected => ~add_item(item, qty, logs)
       /\ (last'.op = "remove_item" /\ last'.ret # PyBool(FALSE)) =>
             \A a \in ItemQtys :
                 LET item == a[1]
                     qty == a[2]
                     rejected == \/ item.t # "str"
                                 \/ qty.t \notin {"int", "bool", "float", "nan"}
                                 \/ strip(item.s) = <<>>
                                 \/ Le(qty, PyInt(0))
                                 \/ ~HasKey(stock_data, item)
                                 \/ Lt(Stored(stock_data, item), qty)
                 IN rejected => ~remove_item(item, qty)
       /\ (last'.op \in {"add_item", "remove_item"} /\ last'.ret = PyBool(FALSE)) =>
             /\ stock_data' = stock_data
             /\ last'.logs = last'.logs_in]_vars

\* C4's case: an add was turned down while the Ledger held entries and the
\* caller's log held an entry.
C4_Witness ==
    /\ last.op = "add_item"
    /\ last.ret = PyBool(FALSE)
    /\ last.logs = <<OldEntry>>
    /\ stock_data # <<>>

\* The mapping a file's text denotes: each key with the value of its last
\* member.
ParsedMap(text) ==
    [k \in {PyStr(text.pairs[i].k) : i \in 1..Len(text.pairs)} |->
        LET n == CHOOSE i \in 1..Len(text.pairs) :
                     /\ PyStr(text.pairs[i].k) = k
                     /\ \A j \in (i + 1)..Len(text.pairs) : PyStr(text.pairs[j].k) # k
        IN LoadValue(text.pairs[n])]

C6_SaveLoadRoundTrip ==
    [][(/\ last.op = "save_data"
        /\ last.ret = PyBool(TRUE)
        /\ load_data(DefaultFile, "ok")) =>
           /\ last'.ret = PyBool(TRUE)
           /\ AsMap(stock_data') = AsMap(stock_data)]_vars

\* C6's case: a load succeeded on text no other program wrote, which is the
\* text a save left, and the Ledger it made has entries.
C6_Witness ==
    /\ last.op = "load_data"
    /\ last.ret = PyBool(TRUE)
    /\ file \notin ExternalFiles
    /\ Len(stock_data) > 1

\* C7: get_qty, check_low_items, print_data and save_data leave the Ledger
\* as it was, whatever their arguments and whether they succeed or fail.
C7_ReadersKeepLedger ==
    [][last'.op \in {"get_qty", "check_low_items", "print_data", "save_data"} =>
          /\ DictKeys(stock_data') = DictKeys(stock_data)
          /\ \A k \in DictKeys(stock_data) : Stored(stock_data', k) = Stored(stock_data, k)]_vars

\* C7's case: get_qty was asked for a name the Ledger does not hold, while
\* the Ledger held entries.
C7_Witness ==
    /\ last.op = "get_qty"
    /\ last.out = ""
    /\ last.ret = PyInt(0)
    /\ stock_data # <<>>
    /\ ~HasKey(stock_data, apple)

\* C8: add with a non-blank string item and a number qty >= 0 returns
\* success, makes the quantity of item its previous one (0 if absent) plus
\* qty, keeps every other key, and appends exactly one entry to the caller's
\* log; with qty = 0 the value stored for item stays equal.
C8_AddContract ==
    [][last'.op = "add_item" =>
          \A a \in ItemQtys, logs \in LogLists :
              LET item == a[1]
                  qty == a[2]
                  old == IF HasKey(stock_data, item)
                         THEN Stored(stock_data, item) ELSE PyInt(0)
              IN (/\ last'.logs_in = logs
                  /\ item.t = "str" /\ strip(item.s) # <<>>
                  /\ AtLeast(qty, PyInt(0))
                  /\ add_item(item, qty, logs)) =>
                     /\ last'.ret = PyBool(TRUE)
                     /\ HasKey(stock_data', item)
                     /\ Stored(stock_data', item) = Plus(old, qty)
                     /\ OthersKept(item)
                     /\ logs # NoList =>
                            /\ Len(last'.logs) = Len(logs) + 1
                            /\ SubSeq(last'.logs, 1, Len(logs)) = logs
                            /\ last'.logs[Len(logs) + 1] = <<qty, item>>
                     /\ (qty.v = 0 /\ old.t # "nan") =>
                            NumEq(Stored(stock_data', item), old)]_vars

\* C8's case: an add of 0 succeeded and was logged after the entry the log
\* already held.
C8_Witness ==
    /\ last.op = "add_item"
    /\ last.ret = PyBool(TRUE)
    /\ last.logs = <<OldEntry, <<PyInt(0), apple>>>>
    /\ Len(stock_data) > 1

\* C9: check_low_items with a number threshold >= 0 returns exactly the keys
\* whose quantity is strictly below it, each once; with a non-numeric or a
\* negative threshold it returns the empty list.
C9_LowItems ==
    [][last'.op = "check_low_items" =>
          \A threshold \in Qtys :
              check_low_items(threshold) =>
                  /\ AtLeast(threshold, PyInt(0)) =>
                        /\ {last'.lines[i] : i \in 1..Len(last'.lines)} =
                               {k \in DictKeys(stock_data) :
                                   LET q == Stored(stock_data, k)
                                   IN q.t # "nan" /\ q.v < threshold.v}
                        /\ Len(last'.lines) =
                               Cardinality({last'.lines[i] : i \in 1..Len(last'.lines)})
                  /\ (threshold.t \notin {"int", "bool", "float", "nan"}
                        \/ (threshold.t # "nan" /\ threshold.v < 0)) =>
                        last'.lines = <<>>]_vars

\* C9's case: of two entries, the scan returned the one below the threshold
\* and left out the one equal to it.
C9_Witness ==
    /\ last.op = "check_low_items"
    /\ last.lines = <<apple>>
    /\ Len(stock_data) > 1
    /\ Stored(stock_data, apple).v + 1 = Stored(stock_data, padded).v

\* C10: every key of the Ledger is a string that is neither empty nor all
\* whitespace.
C10_KeysAreNames ==
    \A k \in DictKeys(stock_data) : k.t = "str" /\ strip(k.s) # <<>>

====
